---- MODULE Spec2Model ----
(***************************************************************************)
(* A model of csv_handler.py of the janeway bepress plugin: the conversion *)
(* of a bepress CSV batch into one metadata.xml document per article.      *)
(*                                                                         *)
(* Python values are modelled with their type: a str is [str |-> chars]    *)
(* where chars is a sequence of one-character strings, None is PyNone, a   *)
(* bool is [bool |-> b], a list is [list |-> items].  A dict is a function *)
(* from its keys (TLA+ strings) to values.  A CSV row is a dict of strs.   *)
(***************************************************************************)
EXTENDS Naturals, Sequences, FiniteSets, TLC

VARIABLES
    commit,     \* csv_to_xml's commit argument
    pc,         \* position of csv_to_xml in its per-row loop
    rows,       \* the rows the reader has yielded so far, in input order
    parsed,     \* the local `parsed` of the current iteration
    xml,        \* the local `xml` of the current iteration
    file_path,  \* the local `file_path` of the current iteration
    files,      \* the filesystem: path |-> content of the file at that path
    dirs,       \* the filesystem: the directories that exist
    console,    \* what print() has emitted, in order
    fetched,    \* the URLs requests.get was called with, in order
    log,        \* what csv_to_xml has done: <<operation, row number>> entries
    failure,    \* the exception that left csv_to_xml, if any
    call,       \* a direct call of one of the module's functions: its arguments
    ret         \* the outcome of that call

vars == <<commit, pc, rows, parsed, xml, file_path, files, dirs, console,
          fetched, log, failure, call, ret>>

batch_vars == <<commit, pc, rows, parsed, xml, file_path, files, dirs,
                console, log, failure>>

-----------------------------------------------------------------------------
(* Python values *)

PyStr(s) == [str |-> s]

PyNone == [none |-> TRUE]

PyBool(b) == [bool |-> b]

PyList(l) == [list |-> l]

\* bool(v) for a value that is a str or None
Truthy(v) == "str" \in DOMAIN v /\ v.str # <<>>

\* row.get(key)
Get(row, key) == IF key \in DOMAIN row THEN row[key] ELSE PyNone

\* row.get(key, default)
GetDefault(row, key, default) == IF key \in DOMAIN row THEN row[key] ELSE default

\* needle in s, for a one-character needle
Contains(s, needle) == \E k \in 1..Len(s) : s[k] = needle

\* s.split(sep) for a one-character sep: the list of the pieces between the
\* separators, empty pieces included ("".split(";") is [""])
RECURSIVE SplitFrom(_, _, _)
SplitFrom(s, sep, piece) ==
    IF s = <<>> THEN <<piece>>
    ELSE IF Head(s) = sep THEN <<piece>> \o SplitFrom(Tail(s), sep, <<>>)
    ELSE SplitFrom(Tail(s), sep, Append(piece, Head(s)))

Split(s, sep) == SplitFrom(s, sep, <<>>)

\* template % n for a template with one %d: <<before, after>>
Format(template, n) == template[1] \o ToString(n) \o template[2]

-----------------------------------------------------------------------------
(* parse_authors *)

AUTHOR_FIELDS_MAP == {
    [src |-> <<"author", "_fname">>,        dest |-> "first_name"],
    [src |-> <<"author", "_mname">>,        dest |-> "middle_name"],
    [src |-> <<"author", "_lname">>,        dest |-> "last_name"],
    [src |-> <<"author", "_suffix">>,       dest |-> "salutation"],
    [src |-> <<"author", "_email">>,        dest |-> "email"],
    [src |-> <<"author", "_institution">>,  dest |-> "institution"],
    [src |-> <<"author", "_is_corporate">>, dest |-> "is_corporate"] }

FirstAuthorIndex == 1

LastAuthorIndex == 5

\* the dict `author` built by the inner loop for one author_index
AuthorAt(row, author_index) ==
    LET present == { m \in AUTHOR_FIELDS_MAP :
                        Truthy(Get(row, Format(m.src, author_index))) }
    IN  [ dest \in { m.dest : m \in present } |->
            row[Format((CHOOSE m \in present : m.dest = dest).src, author_index)] ]

RECURSIVE parse_authors_skipping_from(_, _)
parse_authors_skipping_from(row, author_index) ==
    IF author_index > LastAuthorIndex THEN <<>>
    ELSE LET author == AuthorAt(row, author_index)
         IN  IF DOMAIN author # {}
             THEN <<author>> \o parse_authors_skipping_from(row, author_index + 1)
             ELSE parse_authors_skipping_from(row, author_index + 1)

\* parse_authors with `continue` in place of `break`
parse_authors_skipping(row) == parse_authors_skipping_from(row, FirstAuthorIndex)

RECURSIVE parse_authors_from(_, _)
parse_authors_from(row, author_index) ==
    IF author_index > LastAuthorIndex THEN <<>>
    ELSE LET author == AuthorAt(row, author_index)
         IN  IF DOMAIN author # {}
             THEN <<author>> \o parse_authors_from(row, author_index + 1)
             ELSE <<>>

parse_authors(row) == parse_authors_from(row, FirstAuthorIndex)

-----------------------------------------------------------------------------
(* Input rows *)

\* the columns of one author slot, each given the value of `values` for it
AuthorColumns(n, values) ==
    [ col \in { Format(m.src, n) : m \in { m \in AUTHOR_FIELDS_MAP : m.dest \in DOMAIN values } }
        |-> values[(CHOOSE m \in AUTHOR_FIELDS_MAP : Format(m.src, n) = col).dest] ]

Blank == PyStr(<<>>)

\* a row, or a part of one, with no column
NoColumns == [ col \in {} |-> Blank ]

\* what one author slot of an export may hold
AuthorSlots == {
    \* the columns are missing
    NoColumns,
    \* every column is there and blank
    [first_name |-> Blank, middle_name |-> Blank, last_name |-> Blank,
     salutation |-> Blank, email |-> Blank, institution |-> Blank,
     is_corporate |-> Blank],
    \* a person
    [first_name |-> PyStr(<<"A">>), middle_name |-> Blank, last_name |-> PyStr(<<"B">>),
     salutation |-> Blank, email |-> PyStr(<<"a", "@", "b">>), institution |-> Blank,
     is_corporate |-> Blank],
    \* a corporate author, only two columns exported
    [institution |-> PyStr(<<"U">>), is_corporate |-> PyStr(<<"1">>)] }

RECURSIVE AuthorRowsUpTo(_)
AuthorRowsUpTo(n) ==
    IF n = 0 THEN { NoColumns }
    ELSE { r @@ AuthorColumns(n, slot) : r \in AuthorRowsUpTo(n - 1), slot \in AuthorSlots }

AuthorRows == AuthorRowsUpTo(LastAuthorIndex)

-----------------------------------------------------------------------------
(* get_fulltext_url *)

\* What requests.get does with a URL is the network's choice: it raises a
\* RequestException, or returns a response with .ok and .text.  The text is
\* modelled parsed, as the sequence of its elements in document order, each
\* with its tag name and its attributes.
RequestException == [kind |-> "RequestException"]

Response(ok, text) == [kind |-> "response", ok |-> ok, text |-> text]

Element(name, attrs) == [name |-> name, attrs |-> attrs]

\* soup.find(name, id=id): the first element with that tag name and id, as
\* <<element>>, or <<>> for None
Find(text, name, id) ==
    LET hits == { k \in 1..Len(text) :
                     /\ text[k].name = name
                     /\ "id" \in DOMAIN text[k].attrs
                     /\ text[k].attrs["id"] = id }
    IN  IF hits = {} THEN <<>>
        ELSE <<text[CHOOSE k \in hits : \A j \in hits : k <= j]>>

\* The outcome of a call: the exception it raised ("none" when it returned),
\* the value it returned, and the URLs it fetched.
Returned(value, urls) == [raised |-> "none", value |-> value, fetched |-> urls]

Raised(exception, urls) == [raised |-> exception, value |-> PyNone, fetched |-> urls]

\* what Resolve does from the fetch on, when it fetches
Scrape(row, url, net) ==
    LET urls == <<row["calc_url"]>>
    IN  IF net.kind = "RequestException" THEN Returned(url, urls)
        ELSE IF ~net.ok THEN Returned(url, urls)
        ELSE LET anchor_tag == Find(net.text, "a", "pdf")
             IN  IF anchor_tag = <<>> THEN Returned(url, urls)
                 ELSE IF "href" \in DOMAIN anchor_tag[1].attrs
                      THEN Returned(PyStr(anchor_tag[1].attrs["href"]), urls)
                      ELSE Raised("KeyError", urls)

\* Resolve without `not url` in the condition of line 122
ResolveAlwaysScraping(row, scrape, net) ==
    LET url == Get(row, "fulltext_url")
    IN  IF scrape /\ Truthy(Get(row, "calc_url"))
        THEN Scrape(row, url, net)
        ELSE Returned(url, <<>>)

\* lines 121-136: the URL of the row, or the one scraped from the article page
Resolve(row, scrape, net) ==
    LET url == Get(row, "fulltext_url")
    IN  IF ~Truthy(url) /\ scrape /\ Truthy(Get(row, "calc_url"))
        THEN Scrape(row, url, net)
        ELSE Returned(url, <<>>)

AmpUnstamped == <<"&", "u", "n", "s", "t", "a", "m", "p", "e", "d", "=", "1">>

QueryUnstamped == <<"?", "u", "n", "s", "t", "a", "m", "p", "e", "d", "=", "1">>

\* Stamp without the test of line 139
StampWithQuery(url, unstamped) ==
    IF Truthy(url) /\ unstamped THEN PyStr(url.str \o QueryUnstamped) ELSE url

\* lines 138-144
Stamp(url, unstamped) ==
    IF Truthy(url) /\ unstamped
    THEN IF Contains(url.str, "?")
         THEN PyStr(url.str \o AmpUnstamped)
         ELSE PyStr(url.str \o QueryUnstamped)
    ELSE url

\* get_fulltext_url without the except clause of line 126
get_fulltext_url_uncaught(row, unstamped, scrape, net) ==
    LET r == Resolve(row, scrape, net)
    IN  IF r.raised # "none" THEN r
        ELSE IF r.fetched # <<>> /\ net.kind = "RequestException"
             THEN Raised("RequestException", r.fetched)
             ELSE Returned(Stamp(r.value, unstamped), r.fetched)

get_fulltext_url(row, unstamped, scrape, net) ==
    LET r == Resolve(row, scrape, net)
    IN  IF r.raised # "none" THEN r
        ELSE Returned(Stamp(r.value, unstamped), r.fetched)

-----------------------------------------------------------------------------
(* parse_article_metadata, parse_row *)

\* dict(**kwargs)
DictOfKwargs(row, kwargs) == kwargs

\* dict(row, **kwargs)
Dict(row, kwargs) ==
    [ k \in DOMAIN row \cup DOMAIN kwargs |->
        IF k \in DOMAIN kwargs THEN kwargs[k] ELSE row[k] ]

\* The keyword arguments are evaluated in the order written: a missing
\* disciplines column raises before the fetch, a missing context_key after it.
parse_article_metadata(row, net) ==
    IF "disciplines" \notin DOMAIN row THEN Raised("KeyError", <<>>)
    ELSE LET url == get_fulltext_url(row, TRUE, TRUE, net)
         IN  IF url.raised # "none" THEN url
             ELSE IF "context_key" \notin DOMAIN row
                  THEN Raised("KeyError", url.fetched)
                  ELSE Returned(
                         Dict(row,
                              [keywords      |-> PyList(Split(row["disciplines"].str, ";")),
                               fulltext_url  |-> url.value,
                               article_id    |-> row["context_key"],
                               language      |-> GetDefault(row, "language", PyStr(<<"e", "n">>)),
                               peer_reviewed |-> GetDefault(row, "peer_reviewed", PyBool(FALSE))]),
                         url.fetched)

parse_row(row, net) ==
    LET article_dict == parse_article_metadata(row, net)
    IN  IF article_dict.raised # "none" THEN article_dict
        ELSE Returned(Dict(article_dict.value,
                           [authors |-> PyList(parse_authors(row))]),
                      article_dict.fetched)

-----------------------------------------------------------------------------
(* Inputs of the direct calls *)

\* a column that may be missing, or hold one of the values
Column(key, values) == { NoColumns } \cup { key :> PyStr(v) : v \in values }

\* the pages the network may answer with
Pages == {
    <<>>,
    <<Element("a", [id |-> "pdf", href |-> <<"p">>])>>,
    <<Element("a", [id |-> "pdf"])>>,
    <<Element("a", [id |-> "pdf", href |-> <<>>])>>,
    <<Element("div", [id |-> "pdf", href |-> <<"d">>]),
      Element("a", [id |-> "top", href |-> <<"t">>]),
      Element("a", [id |-> "pdf", href |-> <<"p", "?", "v">>]),
      Element("a", [id |-> "pdf", href |-> <<"z">>])>> }

Network ==
    { RequestException }
    \cup { Response(TRUE, text) : text \in Pages }
    \cup { Response(FALSE, <<Element("a", [id |-> "pdf", href |-> <<"p">>])>>) }

UrlColumns ==
    { a @@ b : a \in Column("fulltext_url", { <<>>, <<"u">>, <<"u", "?", "q">> }),
               b \in Column("calc_url", { <<>>, <<"c">> }) }

ArticleRows ==
    { a @@ b @@ c @@ d @@ e @@ f :
        a \in UrlColumns,
        b \in Column("disciplines", { <<>>, <<"A", ";", "B">> }),
        c \in Column("context_key", { <<"4", "2">> }),
        d \in Column("article_id", { <<>>, <<"7">> }),
        e \in Column("language", { <<"f", "r">> }),
        f \in Column("keywords", { <<"k">> }) }

Calls ==
    { [fn |-> "parse_authors", row |-> r] : r \in AuthorRows }
    \cup { [fn |-> "get_fulltext_url", row |-> r, unstamped |-> u, scrape |-> s, net |-> n] :
             r \in UrlColumns, u \in BOOLEAN, s \in BOOLEAN, n \in Network }
    \cup { [fn |-> "parse_article_metadata", row |-> r, net |-> n] :
             r \in ArticleRows, n \in Network }

NotCalled == [done |-> FALSE]

Outcome(r) == [done |-> TRUE, raised |-> r.raised, value |-> r.value]

-----------------------------------------------------------------------------
(* csv_to_xml *)

\* the longest batch the reader yields
MaxRows == 3

\* plugin_settings.BEPRESS_PATH, as the parts of the path (the configured
\* value is not part of csv_handler.py; any relative directory does)
BEPRESS_PATH == << <<"b", "e", "p", "r", "e", "s", "s">> >>

MetadataXml == <<"m", "e", "t", "a", "d", "a", "t", "a", ".", "x", "m", "l">>

\* pathlib.Path(*segments).parts: a segment is split at "/", its empty and "."
\* pieces are dropped, and a segment that starts with "/" restarts the path
\* at the root
RECURSIVE PathParts(_, _)
PathParts(parts, segments) ==
    IF segments = <<>> THEN parts
    ELSE LET segment == Head(segments)
             pieces  == SelectSeq(Split(segment, "/"),
                                  LAMBDA piece : piece # <<>> /\ piece # <<".">>)
         IN  IF segment # <<>> /\ Head(segment) = "/"
             THEN PathParts(<< <<"/">> >> \o pieces, Tail(segments))
             ELSE PathParts(parts \o pieces, Tail(segments))

\* file_path.parent and its own parents
Parents(path) == { SubSeq(path, 1, n) : n \in 1..(Len(path) - 1) }

\* render_to_string(template, context): the text is determined by the
\* template and the context, and stands here as the pair of them
render_xml(article) ==
    [template |-> "bepress/xml/metadata.xml", context |-> [article |-> article]]

\* what is left of a file that was opened for writing when the write failed
Truncated(text) == [truncated |-> text]

NoFailure == [exception |-> "none"]

NoFiles == [ path \in {} |-> PyNone ]

\* the rows of a batch
BaseRow ==
    [disciplines |-> PyStr(<<"A", ";", "B">>),
     context_key |-> PyStr(<<"4", "2">>),
     issue       |-> PyStr(<<"3">>)]

Without(row, key) == [ k \in DOMAIN row \ {key} |-> row[k] ]

BatchRows == {
    BaseRow,
    \* an explicit full text URL and an article id
    [fulltext_url |-> PyStr(<<"u", "?", "q">>), article_id |-> PyStr(<<"7">>)] @@ BaseRow,
    \* an article id that is another row's context key
    [article_id |-> PyStr(<<"4", "2">>), context_key |-> PyStr(<<"9">>)] @@ BaseRow,
    \* the full text URL is to be scraped; one author
    [calc_url |-> PyStr(<<"c">>), fulltext_url |-> Blank,
     author1_fname |-> PyStr(<<"A">>), author1_lname |-> PyStr(<<"B">>),
     author2_fname |-> Blank, author2_lname |-> Blank,
     context_key |-> PyStr(<<"5">>)] @@ BaseRow,
    \* an issue and a blank identity that join to another row's path
    [issue |-> PyStr(<<"3", "/", "4", "2">>), context_key |-> Blank,
     disciplines |-> Blank] @@ BaseRow,
    \* rows that lack a column
    Without(BaseRow, "disciplines"),
    [article_id |-> PyStr(<<"7">>)] @@ Without(BaseRow, "context_key"),
    [calc_url |-> PyStr(<<"c">>)] @@ Without(BaseRow, "context_key"),
    Without(BaseRow, "issue") }

Init ==
    /\ commit \in BOOLEAN
    /\ pc = "for"
    /\ rows = <<>>
    /\ parsed = PyNone
    /\ xml = PyNone
    /\ file_path = <<>>
    /\ files = NoFiles
    /\ dirs = {}
    /\ console = <<>>
    /\ log = <<>>
    /\ failure = NoFailure
    /\ fetched = <<>>
    /\ call = [fn |-> "csv_to_xml"]
    /\ ret = NotCalled

\* the exception leaves the loop, and csv_to_xml: there is no try around it
PropagateAndContinue(exception, op) ==
    /\ pc' = "for"
    /\ failure' = [exception |-> exception, row |-> Len(rows), op |-> op]

Propagate(exception, op) ==
    /\ pc' = "raised"
    /\ failure' = [exception |-> exception, row |-> Len(rows), op |-> op]

\* line 41: the reader yields its next row
NextRow ==
    /\ pc = "for"
    /\ Len(rows) < MaxRows
    /\ \E row \in BatchRows : rows' = Append(rows, row)
    /\ pc' = "parse_row"
    /\ UNCHANGED <<commit, parsed, xml, file_path, files, dirs, console,
                   fetched, log, failure, call, ret>>

\* line 41: the reader is exhausted
StopIteration ==
    /\ pc = "for"
    /\ pc' = "done"
    /\ UNCHANGED <<commit, rows, parsed, xml, file_path, files, dirs, console,
                   fetched, log, failure, call, ret>>

\* line 42
ParseRow ==
    /\ pc = "parse_row"
    /\ \E net \in Network :
         LET r == parse_row(rows[Len(rows)], net)
         IN  /\ fetched' = fetched \o r.fetched
             /\ log' = Append(log, [op |-> "parse_row", row |-> Len(rows),
                                    fetch |-> IF r.fetched = <<>> THEN "none" ELSE net.kind])
             /\ IF r.raised = "none"
                THEN /\ parsed' = r.value
                     /\ pc' = "render_xml"
                     /\ UNCHANGED failure
                ELSE /\ Propagate(r.raised, "parse_row")
                     /\ UNCHANGED parsed
    /\ UNCHANGED <<commit, rows, xml, file_path, files, dirs, console, call, ret>>

\* line 43: the template engine renders the text, or raises
RenderXml ==
    /\ pc = "render_xml"
    /\ \E rendered \in BOOLEAN :
         IF rendered
         THEN /\ xml' = render_xml(parsed)
              /\ log' = Append(log, [op |-> "render_xml", row |-> Len(rows),
                                     xml |-> render_xml(parsed)])
              /\ pc' = "file_path"
              /\ UNCHANGED failure
         ELSE /\ Propagate("TemplateError", "render_xml")
              /\ log' = Append(log, [op |-> "render_xml", row |-> Len(rows),
                                     xml |-> PyNone])
              /\ UNCHANGED xml
    /\ UNCHANGED <<commit, rows, parsed, file_path, files, dirs, console,
                   fetched, call, ret>>

\* line 46
WriteAlways(c) == "write"

IfCommit(c) == IF c THEN "write" ELSE "print"

\* lines 44-46
FilePath ==
    /\ pc = "file_path"
    /\ LET row == rows[Len(rows)]
       IN  IF \/ ~Truthy(Get(row, "article_id")) /\ "context_key" \notin DOMAIN row
              \/ "issue" \notin DOMAIN row
           THEN /\ Propagate("KeyError", "file_path")
                /\ UNCHANGED <<file_path, log>>
           ELSE LET id == IF Truthy(Get(row, "article_id"))
                          THEN row["article_id"] ELSE row["context_key"]
                    path == PathParts(BEPRESS_PATH,
                                      <<row["issue"].str, id.str, MetadataXml>>)
                IN  /\ file_path' = path
                    /\ log' = Append(log, [op |-> "file_path", row |-> Len(rows),
                                           path |-> path])
                    /\ pc' = IfCommit(commit)
                    /\ UNCHANGED failure
    /\ UNCHANGED <<commit, rows, parsed, xml, files, dirs, console, fetched, call, ret>>

\* open(path, "a") and write
AppendText(fs, path, text) ==
    IF path \in DOMAIN fs THEN (path :> [appended |-> <<fs[path], text>>]) @@ fs
    ELSE (path :> text) @@ fs

\* lines 49-50: open(path, "w") and write
WriteText(fs, path, text) == (path :> text) @@ fs

\* lines 47-50: the filesystem lets mkdir, open and write succeed, or fails
\* one of them
WriteFile ==
    /\ pc = "write"
    /\ \E fault \in {"none", "mkdir", "open", "write"} :
         \E made \in 0..(Len(file_path) - 1) :
           /\ fault # "mkdir" => made = Len(file_path) - 1
           /\ fault = "mkdir" => made < Len(file_path) - 1
           /\ dirs' = dirs \cup { d \in Parents(file_path) : Len(d) <= made }
           /\ CASE fault = "none" ->
                     /\ files' = WriteText(files, file_path, xml)
                     /\ log' = Append(log, [op |-> "write", row |-> Len(rows),
                                            path |-> file_path, xml |-> xml])
                     /\ pc' = "for"
                     /\ UNCHANGED failure
                [] fault = "write" ->
                     /\ files' = WriteText(files, file_path, Truncated(xml))
                     /\ Propagate("OSError", "write")
                     /\ UNCHANGED log
                [] OTHER ->
                     /\ Propagate("OSError", fault)
                     /\ UNCHANGED <<files, log>>
    /\ UNCHANGED <<commit, rows, parsed, xml, file_path, console, fetched, call, ret>>

\* line 52
PrintXml ==
    /\ pc = "print"
    /\ console' = Append(console, xml)
    /\ log' = Append(log, [op |-> "print", row |-> Len(rows)])
    /\ pc' = "for"
    /\ UNCHANGED <<commit, rows, parsed, xml, file_path, files, dirs, fetched,
                   failure, call, ret>>

Next == NextRow \/ StopIteration \/ ParseRow \/ RenderXml \/ FilePath
            \/ WriteFile \/ PrintXml

Spec == Init /\ [][Next]_vars

-----------------------------------------------------------------------------
(* Direct calls of the functions *)

InitCalls ==
    /\ commit = TRUE
    /\ pc = "for"
    /\ rows = <<>>
    /\ parsed = PyNone
    /\ xml = PyNone
    /\ file_path = <<>>
    /\ files = NoFiles
    /\ dirs = {}
    /\ console = <<>>
    /\ log = <<>>
    /\ failure = NoFailure
    /\ fetched = <<>>
    /\ call \in Calls
    /\ ret = NotCalled

CallParseAuthors ==
    /\ call.fn = "parse_authors"
    /\ ~ret.done
    /\ ret' = Outcome(Returned(PyList(parse_authors(call.row)), <<>>))
    /\ UNCHANGED <<batch_vars, fetched, call>>

CallGetFulltextUrl ==
    /\ call.fn = "get_fulltext_url"
    /\ ~ret.done
    /\ LET r == get_fulltext_url(call.row, call.unstamped, call.scrape, call.net)
       IN  /\ ret' = Outcome(r)
           /\ fetched' = fetched \o r.fetched
    /\ UNCHANGED <<batch_vars, call>>

CallParseArticleMetadata ==
    /\ call.fn = "parse_article_metadata"
    /\ ~ret.done
    /\ LET r == parse_article_metadata(call.row, call.net)
       IN  /\ ret' = Outcome(r)
           /\ fetched' = fetched \o r.fetched
    /\ UNCHANGED <<batch_vars, call>>

NextCalls == CallParseAuthors \/ CallGetFulltextUrl \/ CallParseArticleMetadata

SpecCalls == InitCalls /\ [][NextCalls]_vars

-----------------------------------------------------------------------------
(* Properties of the direct calls, checked under SpecCalls *)

Called(fn) == call.fn = fn /\ ret.done

\* the author slot n of the row has a column that is there and not empty
Populated(row, n) ==
    \E m \in AUTHOR_FIELDS_MAP :
        /\ Format(m.src, n) \in DOMAIN row
        /\ row[Format(m.src, n)] # Blank

\* the number of populated slots before the first one that is not
PopulatedPrefix(row) ==
    CHOOSE k \in 0..LastAuthorIndex :
        /\ \A n \in 1..k : Populated(row, n)
        /\ k = LastAuthorIndex \/ ~Populated(row, k + 1)

\* C3: parse_authors returns one record per populated author slot before the
\* first slot that is absent or blank, at most five: record i holds exactly
\* the non-empty columns of slot i, no record is empty, and no author that
\* comes after a blank slot is in the result.
C3_AuthorsStopAtFirstBlank ==
    Called("parse_authors") =>
        LET authors == ret.value.list
            row     == call.row
        IN  /\ ret.raised = "none"
            /\ Len(authors) = PopulatedPrefix(row)
            /\ \A i \in 1..Len(authors) :
                 /\ DOMAIN authors[i] # {}
                 /\ \A m \in AUTHOR_FIELDS_MAP :
                      LET col == Format(m.src, i)
                      IN  IF col \in DOMAIN row /\ row[col] # Blank
                          THEN /\ m.dest \in DOMAIN authors[i]
                               /\ authors[i][m.dest] = row[col]
                          ELSE m.dest \notin DOMAIN authors[i]

\* a row with an author, a blank slot and another author after it, parsed
C3_Witness ==
    /\ Called("parse_authors")
    /\ Populated(call.row, 1)
    /\ ~Populated(call.row, 2)
    /\ Populated(call.row, 3)
    /\ Len(ret.value.list) = 1

\* the row of the call has an explicit, non-empty fulltext_url
HasExplicitUrl == Truthy(Get(call.row, "fulltext_url"))

\* C4: for a row with a non-empty fulltext_url, get_fulltext_url returns that
\* URL, followed by the unstamped flag when unstamped is true, and fetches
\* nothing, whatever scrape is and whether or not the row has a calc_url.
C4_ExplicitUrlIsNotFetched ==
    (Called("get_fulltext_url") /\ HasExplicitUrl) =>
        LET url == call.row["fulltext_url"].str
        IN  /\ ret.raised = "none"
            /\ fetched = <<>>
            /\ IF call.unstamped
               THEN ret.value \in { PyStr(url \o QueryUnstamped), PyStr(url \o AmpUnstamped) }
               ELSE ret.value = PyStr(url)

\* an explicit URL, a calc_url and scrape=True, and the call has returned
C4_Witness ==
    /\ Called("get_fulltext_url")
    /\ HasExplicitUrl
    /\ Truthy(Get(call.row, "calc_url"))
    /\ call.scrape
    /\ call.unstamped
    /\ ret.value = PyStr(<<"u", "?", "u", "n", "s", "t", "a", "m", "p", "e", "d", "=", "1">>)

\* the call is one that scrapes: no explicit URL, scraping allowed, a calc_url
Scrapes ==
    /\ ~HasExplicitUrl
    /\ call.scrape
    /\ Truthy(Get(call.row, "calc_url"))

\* the anchors of the page with id "pdf" that have an href
PdfAnchors ==
    { k \in 1..Len(call.net.text) :
        /\ call.net.text[k].name = "a"
        /\ "id" \in DOMAIN call.net.text[k].attrs
        /\ call.net.text[k].attrs["id"] = "pdf"
        /\ "href" \in DOMAIN call.net.text[k].attrs }

FirstPdfHref ==
    call.net.text[CHOOSE k \in PdfAnchors : \A j \in PdfAnchors : k <= j].attrs["href"]

\* the flag the stamping rule appends to a URL
Flag(url) == IF Contains(url, "?") THEN AmpUnstamped ELSE QueryUnstamped

\* C5: when the row has no explicit URL but a calc_url, scraping is allowed
\* and the fetch returns a response: if the response is OK and its page has
\* an anchor with id "pdf" and an href X, the call returns X plus the
\* unstamped flag; if the response is not OK or the page has no such anchor,
\* the call returns an absent or empty URL, with nothing appended.
C5_ScrapedUrlOrUnresolved ==
    (Called("get_fulltext_url") /\ Scrapes /\ call.net.kind = "response") =>
        IF call.net.ok /\ PdfAnchors # {}
        THEN /\ ret.raised = "none"
             /\ ret.value = IF call.unstamped /\ FirstPdfHref # <<>>
                            THEN PyStr(FirstPdfHref \o Flag(FirstPdfHref))
                            ELSE PyStr(FirstPdfHref)
        ELSE /\ ret.raised = "none"
             /\ ~Truthy(ret.value)

\* the URL the call resolved, before stamping: the explicit one, else the
\* href of the first anchor with id "pdf" of an OK response
ResolvedUrl ==
    IF HasExplicitUrl THEN call.row["fulltext_url"]
    ELSE IF Scrapes /\ call.net.kind = "response" /\ call.net.ok /\ PdfAnchors # {}
         THEN PyStr(FirstPdfHref)
         ELSE Get(call.row, "fulltext_url")

\* C6: when get_fulltext_url returns and a non-empty URL was resolved, from
\* the row or by scraping, and unstamped is true, the result is that URL
\* followed by "&unstamped=1" if the URL contains "?" and by "?unstamped=1"
\* if it does not; when no URL was resolved or unstamped is false, the
\* result is what was resolved, with nothing appended.
C6_StampingSuffix ==
    (Called("get_fulltext_url") /\ ret.raised = "none") =>
        IF Truthy(ResolvedUrl) /\ call.unstamped
        THEN ret.value =
               PyStr(ResolvedUrl.str \o
                     (IF \E k \in 1..Len(ResolvedUrl.str) : ResolvedUrl.str[k] = "?"
                      THEN <<"&", "u", "n", "s", "t", "a", "m", "p", "e", "d", "=", "1">>
                      ELSE <<"?", "u", "n", "s", "t", "a", "m", "p", "e", "d", "=", "1">>))
        ELSE ret.value = ResolvedUrl

\* a scraped URL with a query string, stamped with "&"
C6_Witness ==
    /\ Called("get_fulltext_url")
    /\ Scrapes
    /\ call.unstamped
    /\ ret.value = PyStr(<<"p", "?", "v", "&", "u", "n", "s", "t", "a", "m", "p", "e", "d", "=", "1">>)

\* C8 as stated: every field of the row is in the record with the row's value.
C8_EveryFieldUnmodified ==
    (Called("parse_article_metadata") /\ ret.raised = "none") =>
        \A f \in DOMAIN call.row :
            /\ f \in DOMAIN ret.value
            /\ ret.value[f] = call.row[f]

\* the names parse_article_metadata gives a derived value that need not be
\* the row's
Overlaid == {"keywords", "fulltext_url", "article_id"}

\* C8: parse_article_metadata drops no field of the row, and every field of
\* the row other than keywords, fulltext_url and article_id has exactly the
\* row's value in the record; those three hold the derived values instead:
\* the split disciplines, the resolved URL and the row's context_key.
C8_FieldsCarriedExceptOverlaid ==
    (Called("parse_article_metadata") /\ ret.raised = "none") =>
        /\ \A f \in DOMAIN call.row :
             /\ f \in DOMAIN ret.value
             /\ f \notin Overlaid => ret.value[f] = call.row[f]
        /\ ret.value["article_id"] = call.row["context_key"]
        /\ "list" \in DOMAIN ret.value["keywords"]
        /\ HasExplicitUrl =>
             ret.value["fulltext_url"].str =
               call.row["fulltext_url"].str \o Flag(call.row["fulltext_url"].str)

\* a row with a language, an article_id, a keywords and a fulltext_url
\* column, mapped
C8_Witness ==
    /\ Called("parse_article_metadata")
    /\ ret.raised = "none"
    /\ {"language", "article_id", "keywords", "fulltext_url"} \subseteq DOMAIN call.row
    /\ HasExplicitUrl
    /\ ret.value["language"] = PyStr(<<"f", "r">>)
    /\ ret.value["article_id"] # call.row["article_id"]

\* the page of the call has an anchor with id "pdf" and no href
PdfAnchorWithoutHref ==
    /\ call.net.kind = "response"
    /\ \E k \in 1..Len(call.net.text) :
         /\ call.net.text[k].name = "a"
         /\ "id" \in DOMAIN call.net.text[k].attrs
         /\ call.net.text[k].attrs["id"] = "pdf"
         /\ "href" \notin DOMAIN call.net.text[k].attrs

\* C9: mapping a row raises a lookup error if and only if the row lacks the
\* disciplines field or lacks both an article id and a context key; a row
\* with disciplines and an article_id but no context_key is mapped.
C9_LookupErrorIffMandatoryMissing ==
    (Called("parse_article_metadata") /\ ~PdfAnchorWithoutHref) =>
        ( ret.raised = "KeyError"
          <=> \/ "disciplines" \notin DOMAIN call.row
              \/ /\ ~Truthy(Get(call.row, "article_id"))
                 /\ "context_key" \notin DOMAIN call.row )

-----------------------------------------------------------------------------
(* Properties of csv_to_xml, checked under Spec *)

\* the entries of the log for one operation, in order
Entries(op) == SelectSeq(log, LAMBDA e : e.op = op)

RowsOf(entries) == [ j \in 1..Len(entries) |-> entries[j].row ]

Failed == failure.exception # "none"

\* C1: with commit=true, when parse_row, the rendering or the write of row k
\* raises, csv_to_xml ends there: the rows written are exactly rows 1..k-1,
\* in input order, row k is not written, and no row after k is read, mapped,
\* rendered or written.
C1_FailFast ==
    (commit /\ Failed) =>
        /\ pc = "raised"
        /\ Len(rows) = failure.row
        /\ RowsOf(Entries("write")) = [ j \in 1..(failure.row - 1) |-> j ]
        /\ \A j \in 1..Len(log) : log[j].row <= failure.row

\* the second row of a batch raised, after the first was written
C1_Witness ==
    /\ commit
    /\ Failed
    /\ failure.row = 2
    /\ failure.op = "parse_row"
    /\ Len(Entries("write")) = 1

\* the rows whose fetch raised a transport error
TransportFaults ==
    { log[j].row : j \in { j \in 1..Len(log) :
                             log[j].op = "parse_row" /\ log[j].fetch = "RequestException" } }

\* csv_to_xml is past row k
Past(k) == k < Len(rows) \/ pc \in {"for", "done"}

\* C2: with commit=true, a transport error of the fetch for a row never leaves
\* get_fulltext_url: the row is mapped with an absent or empty fulltext_url,
\* and unless something else raises for the row (a missing column, the
\* rendering, the filesystem), its file is written with that record and the
\* loop goes on to the next row.
C2_TransportFaultIsSoft ==
    commit =>
        \A k \in TransportFaults :
            /\ failure.exception # "RequestException"
            /\ (k = Len(rows) /\ pc \in {"render_xml", "file_path", "write"})
                 => ~Truthy(parsed["fulltext_url"])
            /\ (Past(k) /\ ~(Failed /\ failure.row = k))
                 => \E j \in 1..Len(log) :
                      /\ log[j].op = "write"
                      /\ log[j].row = k
                      /\ ~Truthy(log[j].xml.context.article["fulltext_url"])

\* the fetch for row 1 raised, row 1 was written and row 2 is being mapped
C2_Witness ==
    /\ commit
    /\ 1 \in TransportFaults
    /\ Len(rows) = 2
    /\ pc = "render_xml"
    /\ \E j \in 1..Len(log) : log[j].op = "write" /\ log[j].row = 1

\* the text rendered for row k
RenderedText(k) ==
    (CHOOSE e \in { log[j] : j \in { j \in 1..Len(log) : log[j].op = "render_xml" } } :
        e.row = k).xml

\* C7: with commit=false, csv_to_xml creates no directory and creates or
\* changes no file, and prints the rendered text of each row it processes,
\* once per row, in input order.
C7_DryRunPrintsOnly ==
    ~commit =>
        /\ files = NoFiles
        /\ dirs = {}
        /\ RowsOf(Entries("print")) = [ k \in 1..Len(console) |-> k ]
        /\ \A k \in 1..Len(console) : console[k] = RenderedText(k)
        /\ (pc \in {"for", "done"} /\ ~Failed) => Len(console) = Len(rows)

\* two rows printed
C7_Witness ==
    /\ ~commit
    /\ pc = "done"
    /\ Len(rows) = 2
    /\ Len(console) = 2
    /\ console[1] # console[2]

\* the destination the row is given: <base>/<issue>/<identity>/metadata.xml
\* with identity the article_id if the row has one, else the context_key
Destination(row) ==
    BEPRESS_PATH \o
    << row["issue"].str,
       (IF "article_id" \in DOMAIN row /\ row["article_id"] # Blank
        THEN row["article_id"] ELSE row["context_key"]).str,
       MetadataXml >>

\* issue and identity are plain path components
PlainComponents(row) ==
    \A part \in { Destination(row)[n] : n \in 1..Len(Destination(row)) } :
        part # <<>> /\ part # <<".">> /\ ~Contains(part, "/")

\* C10 as stated: at the end of a successful batch, the file of every row,
\* at <base>/<issue>/<identity>/metadata.xml, holds that row's rendered text.
C10_EveryRowKeepsItsFile ==
    (/\ commit /\ pc = "done" /\ ~Failed
     /\ \A k \in 1..Len(rows) : PlainComponents(rows[k])) =>
        \A j \in 1..Len(log) :
            log[j].op = "write" =>
                /\ log[j].path \in DOMAIN files
                /\ files[log[j].path] = log[j].xml

\* the rows after row k that csv_to_xml computed the same file_path for
SamePathLater(k, path) ==
    { log[j].row : j \in { j \in 1..Len(log) :
                             /\ log[j].op = "file_path"
                             /\ log[j].row > k
                             /\ log[j].path = path } }

\* C10: with commit=true, a row's file is written at
\* <base>/<issue>/<identity>/metadata.xml, and processing a later row changes
\* it only if the later row has the same destination path, which replaces
\* the content: while nothing has raised, every file holds the rendered text
\* of the last row written to its path, and a written row whose path no
\* later row shares has its rendered text as the content of its file.
C10_LastWriterKeepsItsFile ==
    commit =>
        /\ \A j \in 1..Len(log) :
             log[j].op = "write" =>
                /\ PlainComponents(rows[log[j].row])
                     => log[j].path = Destination(rows[log[j].row])
                /\ log[j].xml = RenderedText(log[j].row)
                /\ SamePathLater(log[j].row, log[j].path) = {}
                     => /\ log[j].path \in DOMAIN files
                        /\ files[log[j].path] = log[j].xml
        /\ ~Failed =>
             \A path \in DOMAIN files :
                \E j \in 1..Len(log) :
                    /\ log[j].op = "write"
                    /\ log[j].path = path
                    /\ files[path] = log[j].xml
                    /\ \A later \in (j + 1)..Len(log) :
                         log[later].op = "write" => log[later].path # path

\* a successful batch where the second row replaced
\* the file of the first
C10_Witness ==
    /\ commit
    /\ pc = "done"
    /\ ~Failed
    /\ Len(Entries("write")) = 2
    /\ Entries("write")[1].path = Entries("write")[2].path
    /\ Entries("write")[1].xml # Entries("write")[2].xml
    /\ files[Entries("write")[2].path] = Entries("write")[2].xml

====
